---- MODULE Spec2Model ----
(***************************************************************************)
(* Model of the arc gateway's elasticsearch plugin: the route-construction *)
(* pipeline of preprocess (plugins/elasticsearch/routes.go) and the        *)
(* process-wide response cache (package response).                         *)
(*                                                                         *)
(* Strings are sequences of tokens: the punctuation the code looks at      *)
(* ("/", "_", "{", "}", ".", "-", ".html", ".json") is a token of its own, *)
(* every other token is an opaque word.  "/{index}/_search" is             *)
(* <<"/", "{", "index", "}", "/", "_", "search">>.                         *)
(***************************************************************************)
EXTENDS Integers, Sequences, FiniteSets, TLC

\* ------------------------------------------------------------------ bounds

\* Number of spec files below the spec root.
NumFiles == 3

Files == 1..NumFiles

\* ----------------------------------------------------------------- strings

RECURSIVE Split(_, _)
\* strings.Split(s, sep) for a one-token separator.
Split(s, sep) ==
    IF \A i \in 1..Len(s) : s[i] # sep
    THEN <<s>>
    ELSE LET i == CHOOSE k \in 1..Len(s) :
                     s[k] = sep /\ \A j \in 1..(k - 1) : s[j] # sep
         IN  <<SubSeq(s, 1, i - 1)>> \o Split(SubSeq(s, i + 1, Len(s)), sep)

\* strings.HasPrefix(s, tok) for a one-token prefix.
HasPrefix(s, tok) == Len(s) > 0 /\ s[1] = tok

\* strings.TrimPrefix(s, tok) for a one-token prefix.
TrimPrefix(s, tok) == IF HasPrefix(s, tok) THEN Tail(s) ELSE s

\* strings.TrimSuffix(s, tok) for a one-token suffix.
TrimSuffix(s, tok) ==
    IF Len(s) > 0 /\ s[Len(s)] = tok THEN SubSeq(s, 1, Len(s) - 1) ELSE s

\* ------------------------------------------------------------- spec corpus

\* The decoded spec struct: Documentation, Methods, URL.Path, URL.Paths.
SearchSpec ==
    [ Documentation |-> <<"docs", "/", "search", "-", "search", ".html">>,
      Methods       |-> <<"GET", "POST">>,
      Path          |-> <<"/", "_", "search">>,
      Paths         |-> << <<"/", "_", "search">>,
                           <<"/", "{", "index", "}", "/", "_", "search">> >> ]

InfoSpec ==
    [ Documentation |-> <<"docs", "/", "index", ".html">>,
      Methods       |-> <<"GET">>,
      Path          |-> <<"/">>,
      Paths         |-> << <<"/">>, <<>> >> ]

IndicesGetSpec ==
    [ Documentation |-> <<"docs", "/", "indices", "-", "get", "-", "index", ".html">>,
      Methods       |-> <<"GET">>,
      Path          |-> <<"/", "{", "index", "}">>,
      Paths         |-> << <<"/", "{", "index", "}">>,
                           <<"{", "index", "}", "/", "_", "search">> >> ]

CatIndicesSpec ==
    [ Documentation |-> <<"docs", "/", "cat", "-", "indices", ".html">>,
      Methods       |-> <<"POST", "DELETE">>,
      Path          |-> <<"/", "_", "cat", "/", "indices">>,
      Paths         |-> << >> ]

XpackSpec ==
    [ Documentation |-> <<"docs", "/", "info", "-", "api", ".html">>,
      Methods       |-> <<"PUT">>,
      Path          |-> <<"/", "_", "xpack">>,
      Paths         |-> << <<"/", "_", "xpack">> >> ]

\* The spec files a corpus is drawn from: base name and decoded content.
SpecFilePool ==
    { [base |-> <<"search", ".json">>,                 spec |-> SearchSpec],
      [base |-> <<"info", ".json">>,                   spec |-> InfoSpec],
      [base |-> <<"indices", ".", "get", ".json">>,    spec |-> IndicesGetSpec],
      [base |-> <<"cat", ".", "indices", ".json">>,    spec |-> CatIndicesSpec],
      [base |-> <<"xpack", ".", "info", ".json">>,     spec |-> XpackSpec] }

\* What a file below the spec root holds: a well-formed spec, bytes that do
\* not decode ("malformed"), or nothing ioutil.ReadFile can read.
Content ==
    { [kind |-> "ok", base |-> e.base, spec |-> e.spec] : e \in SpecFilePool }
        \cup { [kind |-> "malformed",  base |-> <<"bad", ".json">>, spec |-> InfoSpec],
               [kind |-> "unreadable", base |-> <<"gone", ".json">>, spec |-> InfoSpec] }

\* The corpus standing for "no file at all", below a root that is no directory.
NoFiles ==
    [f \in Files |-> [kind |-> "unreadable", base |-> <<"gone", ".json">>,
                      spec |-> InfoSpec]]

\* ----------------------------------------------------------- classification

\* category.FromString: the known categories, anything else is "other".
CategoryFromString(tagName) ==
    IF tagName \in {<<"search">>, <<"indices">>, <<"cat">>, <<"cluster">>}
    THEN tagName
    ELSE <<"other">>

\* acl.FromString: the ACL vocabulary; err is set for a name outside it.
KnownACLs == {<<"cat">>, <<"search">>, <<"get">>, <<"mapping">>}

ACLFromString(s) ==
    IF s \in KnownACLs THEN [acl |-> s, err |-> FALSE]
    ELSE [acl |-> <<>>, err |-> TRUE]

\* The zero value of op.Operation, held by specOp before the scan assigns it.
ZeroOperation == "read"

decodeCategory(spec) ==
    LET docTokens == Split(spec.Documentation, "/")
        tag       == TrimSuffix(docTokens[Len(docTokens)], ".html")
        tagTokens == Split(tag, "-")
    IN  CategoryFromString(tagTokens[1])

\* The (pointer, error) pair of decodeACL: nil is TRUE for a nil *acl.ACL.
decodeACL(specName, spec) ==
    LET pathTokens == Split(spec.Path, "/")
        hits == {i \in 1..Len(pathTokens) : HasPrefix(pathTokens[i], "_")}
    IN  IF hits # {}
        THEN LET i == CHOOSE k \in hits : \A j \in hits : k <= j
                 c == ACLFromString(TrimPrefix(pathTokens[i], "_"))
             IN  IF c.err
                 THEN [nil |-> TRUE, acl |-> <<>>, err |-> TRUE]
                 ELSE [nil |-> FALSE, acl |-> c.acl, err |-> FALSE]
        ELSE LET aclString == Split(specName, ".")[1]
                 a == ACLFromString(aclString)
             IN  IF a.err
                 THEN [nil |-> FALSE, acl |-> <<"get">>, err |-> TRUE]
                 ELSE [nil |-> FALSE, acl |-> a.acl, err |-> FALSE]

RECURSIVE ScanMethodsPostStops(_, _)
\* The mutated loop: POST breaks out like the other methods.
ScanMethodsPostStops(methods, specOp) ==
    IF methods = <<>> THEN specOp
    ELSE LET method == Head(methods)
         IN  CASE method \in {"PUT", "PATCH", "POST"} -> "write"
               [] method = "DELETE"                   -> "delete"
               [] OTHER                               -> "read"

RECURSIVE ScanMethodsPostIsOther(_, _)
\* The mutated loop: POST has no case of its own and takes the default.
ScanMethodsPostIsOther(methods, specOp) ==
    IF methods = <<>> THEN specOp
    ELSE LET method == Head(methods)
         IN  CASE method \in {"PUT", "PATCH"} -> "write"
               [] method = "DELETE"           -> "delete"
               [] OTHER                       -> "read"

RECURSIVE ScanMethods(_, _)
\* The labelled loop of decodeOp from the methods still to scan.
ScanMethods(methods, specOp) ==
    IF methods = <<>> THEN specOp
    ELSE LET method == Head(methods)
         IN  CASE method \in {"PUT", "PATCH"} -> "write"
               [] method = "DELETE"           -> "delete"
               [] method \in {"GET", "HEAD"}  -> "read"
               [] method = "POST"             -> ScanMethods(Tail(methods), "write")
               [] OTHER                       -> "read"

decodeOp(spec) == ScanMethods(spec.Methods, ZeroOperation)

\* The api value decodeSpecFile sends for a decoded spec.
ApiOf(base, s) ==
    LET specName == TrimSuffix(base, ".json")
    IN  [ name     |-> specName,
          category |-> decodeCategory(s),
          op       |-> decodeOp(s),
          acl      |-> decodeACL(specName, s).acl,
          spec     |-> s ]

\* ------------------------------------------------------------ route builder

\* The path a variant is registered under: a leading "/" is added if missing.
Normalize(path) == IF ~HasPrefix(path, "/") THEN <<"/">> \o path ELSE path

\* The mutated skip test: no variant is skipped.
SkipNothing(path) == FALSE

\* The variant the loop skips: the bare "/".
IsIndexPath(path) == path = <<"/">>

RECURSIVE RoutesOfPaths(_, _)
\* The routes one api appends, from the variants still to visit.
RoutesOfPaths(api, paths) ==
    IF paths = <<>> THEN <<>>
    ELSE LET path == Normalize(Head(paths))
             rest == RoutesOfPaths(api, Tail(paths))
         IN  IF IsIndexPath(path) THEN rest
             ELSE << [ Name        |-> api.name,
                       Methods     |-> api.spec.Methods,
                       Path        |-> path,
                       Description |-> api.spec.Documentation ] >> \o rest

RoutesOf(api) == RoutesOfPaths(api, api.spec.Paths)

\* fmt.Sprintf("%s:%s", method, path)
RouteKey(method, path) == <<method, ":">> \o path

\* The routeSpecs keys one api writes.
KeysOf(api) ==
    LET rs == RoutesOf(api)
    IN  {RouteKey(rs[i].Methods[j], rs[i].Path) :
            i \in 1..Len(rs), j \in 1..Len(api.spec.Methods)}

\* util.CountComponents: <<fixed segments, parameter segments>> of a path;
\* a segment written {name} is a parameter, an empty segment counts for nothing.
CountComponents(path) ==
    LET segs  == Split(path, "/")
        IsVar(seg) == Len(seg) >= 2 /\ seg[1] = "{" /\ seg[Len(seg)] = "}"
        vars  == {i \in 1..Len(segs) : IsVar(segs[i])}
        fixed == {i \in 1..Len(segs) : segs[i] # <<>> /\ ~IsVar(segs[i])}
    IN  <<Cardinality(fixed), Cardinality(vars)>>

\* The mutated comparator: fewer fixed segments first.
criteriaAscending(r1, r2) ==
    LET n1 == CountComponents(r1.Path)
        n2 == CountComponents(r2.Path)
    IN  IF n1[1] = n2[1] THEN n1[2] < n2[2] ELSE n1[1] < n2[1]

\* The less function handed to route.By.
criteria(r1, r2) ==
    LET n1 == CountComponents(r1.Path)
        n2 == CountComponents(r2.Path)
    IN  IF n1[1] = n2[1] THEN n1[2] < n2[2] ELSE n1[1] > n2[1]

\* Insert r behind every element of the sorted sequence s it is not less than.
InsertSorted(r, s) ==
    LET before == {i \in 1..Len(s) : criteria(r, s[i])}
        at == IF before = {} THEN Len(s) + 1
              ELSE CHOOSE k \in before : \A j \in before : k <= j
    IN  SubSeq(s, 1, at - 1) \o <<r>> \o SubSeq(s, at, Len(s))

RECURSIVE SortRoutes(_)
\* route.By(criteria).Sort: ties keep their order of arrival.
SortRoutes(rs) ==
    IF rs = <<>> THEN <<>>
    ELSE InsertSorted(rs[Len(rs)], SortRoutes(SubSeq(rs, 1, Len(rs) - 1)))

indexRoute ==
    [ Name        |-> <<"ping">>,
      Methods     |-> <<"GET">>,
      Path        |-> <<"/">>,
      Description |-> <<"You know, for search">> ]

\* ---------------------------------------------------------- pipeline state

VARIABLES
    root,        \* what getWD's path is: "dir", "missing" or "file"
    corpus,      \* the content of each file below the root
    fetchPc,     \* fetchSpecFiles: "stat", "walk", "done"
    walked,      \* files the walk has sent on `files`
    filesClosed, \* close(files) has run
    dispPc,      \* decodeSpecFiles: "range", "done"
    task,        \* decodeSpecFile per file: "idle", "read", "send", "sent",
                 \* "done", "dead"
    wg,          \* the WaitGroup counter
    closerPc,    \* the wg.Wait / close(apis) goroutine: "idle", "wait", "done"
    apisCloses,  \* how many times close(apis) has run
    mainPc,      \* preprocess: "range", "returned"
    routes,      \* the package-level route table
    routeSpecs,  \* "METHOD:path" -> api
    acls,        \* category -> set of ACLs
    proc         \* the process: "running", "fatal" (log.Fatal), "panic"

pipeVars == <<root, corpus, fetchPc, walked, filesClosed, dispPc, task, wg,
              closerPc, apisCloses, mainPc, routes, routeSpecs, acls, proc>>

\* sync.WaitGroup
WgAdd(n) == n + 1

WgDone(n) == n - 1

\* The mutated barrier: Wait returns whatever the counter is.
WaitReturnsAlways(n) == TRUE

WaitReturns(n) == n = 0

PipeInit ==
    /\ root \in {"dir", "missing", "file"}
    /\ corpus \in [Files -> Content]
    /\ root # "dir" => corpus = NoFiles
    /\ fetchPc = "stat"
    /\ walked = 0
    /\ filesClosed = FALSE
    /\ dispPc = "range"
    /\ task = [f \in Files |-> "idle"]
    /\ wg = 0
    /\ closerPc = "idle"
    /\ apisCloses = 0
    /\ mainPc = "range"
    /\ routes = <<>>
    /\ routeSpecs = <<>>
    /\ acls = <<>>
    /\ proc = "running"

\* ----------------------------------------------------------- response cache

\* Request IDs the handlers use.
NumKeys == 2

\* Documents (map values) the callers have allocated.
NumDocs == 2

\* Operations of one run of the cache.
MaxOps == 3

\* Concurrent request handlers.
NumHandlers == 2

Keys == 1..NumKeys

\* A map[string]interface{} value is a reference: 0 is the nil map, the others
\* are the allocated documents, whose content lives in `heap`.
NilDoc == 0

DocRefs == 1..NumDocs

Handlers == 1..NumHandlers

Contents == {"took5", "took7"}

VARIABLES
    Response,   \* the package-level map: request ID -> document reference
    heap,       \* content of every allocated document
    shared,     \* documents a caller handed to SaveResponse or got from GetResponse
    hist,       \* the operations run so far, each GetResponse with its result
    snapshot,   \* per stored key, the content its document had when it was saved
    handler,    \* per concurrent handler, the map access it is inside of
    cacheFault  \* the runtime aborted on a concurrent map access

cacheVars == <<Response, heap, shared, hist, snapshot, handler, cacheFault>>

NotFound == [found |-> FALSE, doc |-> NilDoc]

\* response, ok := Response[requestID]; nil if !ok, else &response.
MapLoad(R, k) ==
    IF k \in DOMAIN R THEN [found |-> TRUE, doc |-> R[k]] ELSE NotFound

\* Response[requestID] = response
MapStore(R, k, d) == [x \in DOMAIN R \cup {k} |-> IF x = k THEN d ELSE R[x]]

\* The mutated delete: the whole map is cleared.
MapDeleteAll(R, k) == <<>>

\* delete(Response, requestID)
MapDelete(R, k) == [x \in DOMAIN R \ {k} |-> R[x]]

Idle == [op |-> "idle", key |-> 0, doc |-> NilDoc, raced |-> FALSE]

CacheInit ==
    /\ Response = <<>>
    /\ heap \in [DocRefs -> Contents]
    /\ shared = {}
    /\ hist = <<>>
    /\ snapshot = <<>>
    /\ handler = [h \in Handlers |-> Idle]
    /\ cacheFault = FALSE

ContentOf(d) == IF d = NilDoc THEN "nil" ELSE heap[d]

\* ------------------------------------------------------- forwarding handler

\* http.StatusInternalServerError
StatusInternalServerError == 500

\* Header names of the model; net/http holds them in canonical form.
RequestHeaderNames == {"Content-Type", "Accept", "X-Request-Id"}

ResponseHeaderNames == {"Content-Length", "X-Origin", "Set-Cookie"}

\* The values one header name carries: one, or several.
HeaderValues == { <<"v1">>, <<"v1", "v2">> }

\* http.Header over a set of names: a map from some of them to their values.
HeadersOver(names) ==
    UNION { [present -> HeaderValues] : present \in SUBSET names }

\* What ioutil.ReadAll(r.Body) returns: the bytes read, and whether the read
\* ended in an error (the bytes are then those read before it).
BodyReads ==
    { [data |-> <<>>,            err |-> FALSE],
      [data |-> <<"b1", "b2">>,  err |-> FALSE],
      [data |-> <<>>,            err |-> TRUE],
      [data |-> <<"b1">>,        err |-> TRUE] }

\* The inbound requests of the model.
Requests ==
    [ Method : {"GET", "POST"},
      Path   : { <<"/", "_", "search">> },
      Params : { <<>>, <<"q">> },
      Header : HeadersOver(RequestHeaderNames),
      read   : BodyReads ]

NoResponse == [StatusCode |-> 0, Header |-> <<>>, Body |-> <<>>]

\* What PerformRequest returns: an error, or the backend's response.
BackendOutcomes ==
    { [err |-> TRUE, text |-> <<"connection refused">>, response |-> NoResponse] }
        \cup { [err |-> FALSE, text |-> <<>>, response |-> r] :
                  r \in [ StatusCode : {200, 404},
                          Header     : HeadersOver(ResponseHeaderNames),
                          Body       : { <<>>, <<"r1", "r2">> } ] }

VARIABLES
    request,    \* the inbound *http.Request
    hpc,        \* handler: "start", "called", "headers", "status", "body", "done"
    calls,      \* the PerformRequestOptions of every backend call issued
    outcome,    \* what the backend call returned
    w           \* the http.ResponseWriter: header map, written status, the
                \* header sent with it, body bytes, and the order of writes

reqVars == <<request, hpc, calls, outcome, w>>

\* ------------------------------------------------------ operation of a spec

\* Longest list of declared methods.
MaxMethods == 3

MethodNames == {"GET", "HEAD", "POST", "PUT", "PATCH", "DELETE", "OPTIONS"}

MethodLists == UNION { [1..n -> MethodNames] : n \in 0..MaxMethods }

VARIABLES
    methods,    \* spec.Methods handed to decodeOp
    specOp      \* what decodeOp returned, "pending" before the call

opVars == <<methods, specOp>>

auxVars == <<reqVars, opVars>>

\* fetchSpecFiles up to the walk: os.Stat and the IsDir test.
FetchStat ==
    /\ proc = "running" /\ fetchPc = "stat"
    /\ \/ /\ root = "missing"
          /\ proc' = "fatal"
          /\ UNCHANGED <<fetchPc, filesClosed>>
       \/ /\ root = "file"
          /\ fetchPc' = "done"
          /\ filesClosed' = TRUE
          /\ UNCHANGED proc
       \/ /\ root = "dir"
          /\ fetchPc' = "walk"
          /\ UNCHANGED <<proc, filesClosed>>
    /\ UNCHANGED <<cacheVars, auxVars, root, corpus, walked, dispPc, task, wg, closerPc, apisCloses,
                   mainPc, routes, routeSpecs, acls>>

\* The walk sends the next file on the unbuffered `files`; decodeSpecFiles
\* receives it, counts it and starts its decode task.
WalkSend ==
    /\ proc = "running" /\ fetchPc = "walk" /\ dispPc = "range"
    /\ walked < NumFiles
    /\ walked' = walked + 1
    /\ wg' = WgAdd(wg)
    /\ task' = [task EXCEPT ![walked + 1] = "read"]
    /\ UNCHANGED <<cacheVars, auxVars, root, corpus, fetchPc, filesClosed, dispPc, closerPc,
                   apisCloses, mainPc, routes, routeSpecs, acls, proc>>

\* The walk is over: fetchSpecFiles returns and its deferred close(files) runs.
WalkEnd ==
    /\ proc = "running" /\ fetchPc = "walk"
    /\ walked = NumFiles
    /\ fetchPc' = "done"
    /\ filesClosed' = TRUE
    /\ UNCHANGED <<cacheVars, auxVars, root, corpus, walked, dispPc, task, wg, closerPc, apisCloses,
                   mainPc, routes, routeSpecs, acls, proc>>

\* decodeSpecFiles leaves its range loop and starts the closing goroutine.
DispatchEnd ==
    /\ proc = "running" /\ dispPc = "range" /\ filesClosed
    /\ dispPc' = "done"
    /\ closerPc' = "wait"
    /\ UNCHANGED <<cacheVars, auxVars, root, corpus, fetchPc, walked, filesClosed, task, wg,
                   apisCloses, mainPc, routes, routeSpecs, acls, proc>>

\* decodeSpecFile up to its send: read, decode, classify.  An unreadable file
\* is logged and the task returns; a decoder error ends in log.Fatal, which
\* exits the process; a nil *acl.ACL from decodeACL is dereferenced for the
\* api value, a panic that ends the process as well.
DecodeSpecFile(f) ==
    /\ proc = "running" /\ task[f] = "read"
    /\ \/ /\ corpus[f].kind = "unreadable"
          /\ task' = [task EXCEPT ![f] = "done"]
          /\ wg' = WgDone(wg)
          /\ UNCHANGED proc
       \/ /\ corpus[f].kind = "malformed"
          /\ task' = [task EXCEPT ![f] = "dead"]
          /\ proc' = "fatal"
          /\ UNCHANGED wg
       \/ /\ corpus[f].kind = "ok"
          /\ decodeACL(TrimSuffix(corpus[f].base, ".json"), corpus[f].spec).nil
          /\ task' = [task EXCEPT ![f] = "dead"]
          /\ proc' = "panic"
          /\ UNCHANGED wg
       \/ /\ corpus[f].kind = "ok"
          /\ ~decodeACL(TrimSuffix(corpus[f].base, ".json"), corpus[f].spec).nil
          /\ task' = [task EXCEPT ![f] = "send"]
          /\ UNCHANGED <<wg, proc>>
    /\ UNCHANGED <<cacheVars, auxVars, root, corpus, fetchPc, walked, filesClosed, dispPc, closerPc,
                   apisCloses, mainPc, routes, routeSpecs, acls>>

\* One iteration of preprocess's range loop: the api a decode task sends on
\* the unbuffered `apis` is received and its routes are registered.  A task
\* still at its send once `apis` is closed can only panic (C6 excludes it).
Deliver(f) ==
    /\ proc = "running" /\ task[f] = "send"
    /\ mainPc = "range" /\ apisCloses = 0
    /\ LET api == ApiOf(corpus[f].base, corpus[f].spec)
           keys == KeysOf(api)
       IN  /\ routes' = routes \o RoutesOf(api)
           /\ routeSpecs' = [k \in DOMAIN routeSpecs \cup keys |->
                                IF k \in keys THEN api ELSE routeSpecs[k]]
           /\ acls' = [c \in DOMAIN acls \cup {api.category} |->
                          IF c = api.category
                          THEN (IF c \in DOMAIN acls THEN acls[c] ELSE {})
                                   \cup {api.acl}
                          ELSE acls[c]]
    /\ task' = [task EXCEPT ![f] = "sent"]
    /\ UNCHANGED <<cacheVars, auxVars, root, corpus, fetchPc, walked, filesClosed, dispPc, wg,
                   closerPc, apisCloses, mainPc, proc>>

\* decodeSpecFile returns after its send: the deferred wg.Done.
TaskDone(f) ==
    /\ proc = "running" /\ task[f] = "sent"
    /\ task' = [task EXCEPT ![f] = "done"]
    /\ wg' = WgDone(wg)
    /\ UNCHANGED <<cacheVars, auxVars, root, corpus, fetchPc, walked, filesClosed, dispPc, closerPc,
                   apisCloses, mainPc, routes, routeSpecs, acls, proc>>

\* The closing goroutine: wg.Wait returns, close(apis).
CloseApis ==
    /\ proc = "running" /\ closerPc = "wait"
    /\ WaitReturns(wg)
    /\ closerPc' = "done"
    /\ apisCloses' = apisCloses + 1
    /\ UNCHANGED <<cacheVars, auxVars, root, corpus, fetchPc, walked, filesClosed, dispPc, task, wg,
                   mainPc, routes, routeSpecs, acls, proc>>

\* preprocess after its range loop: sort, append the index route, return.
Publish ==
    /\ proc = "running" /\ mainPc = "range" /\ apisCloses > 0
    /\ routes' = Append(SortRoutes(routes), indexRoute)
    /\ mainPc' = "returned"
    /\ UNCHANGED <<cacheVars, auxVars, root, corpus, fetchPc, walked, filesClosed, dispPc, task, wg,
                   closerPc, apisCloses, routeSpecs, acls, proc>>

\* One call of SaveResponse, start to end.
SaveResponse(k, d) ==
    /\ Len(hist) < MaxOps
    /\ Response' = MapStore(Response, k, d)
    /\ shared' = shared \cup ({d} \ {NilDoc})
    /\ snapshot' = MapStore(snapshot, k, ContentOf(d))
    /\ hist' = Append(hist, [op |-> "save", key |-> k, doc |-> d, res |-> NotFound])
    /\ UNCHANGED <<pipeVars, auxVars, heap, handler, cacheFault>>

\* One call of GetResponse, start to end.
GetResponse(k) ==
    /\ Len(hist) < MaxOps
    /\ LET res == MapLoad(Response, k)
       IN  /\ shared' = shared \cup (IF res.found THEN {res.doc} \ {NilDoc} ELSE {})
           /\ hist' = Append(hist, [op |-> "get", key |-> k, doc |-> NilDoc, res |-> res])
    /\ UNCHANGED <<pipeVars, auxVars, Response, heap, snapshot, handler, cacheFault>>

\* One call of ClearResponse, start to end.
ClearResponse(k) ==
    /\ Len(hist) < MaxOps
    /\ Response' = MapDelete(Response, k)
    /\ snapshot' = MapDelete(snapshot, k)
    /\ hist' = Append(hist, [op |-> "clear", key |-> k, doc |-> NilDoc, res |-> NotFound])
    /\ UNCHANGED <<pipeVars, auxVars, heap, shared, handler, cacheFault>>

\* A caller writes into a document it passed to SaveResponse or received from
\* GetResponse: both are references to the map the cache holds.
CallerMutates(d, c) ==
    /\ d \in shared
    /\ heap[d] # c
    /\ heap' = [heap EXCEPT ![d] = c]
    /\ UNCHANGED <<pipeVars, auxVars, Response, shared, hist, snapshot, handler, cacheFault>>

\* The accesses of two handlers conflict unless both only read the map.
Conflict(op1, op2) == op1 # "get" \/ op2 # "get"

\* A handler enters SaveResponse, GetResponse or ClearResponse: nothing in the
\* package keeps it out while another handler is inside.
BeginAccess(h, op, k, d) ==
    /\ ~cacheFault
    /\ handler[h].op = "idle"
    /\ handler' =
         [x \in Handlers |->
            IF x = h
            THEN [op |-> op, key |-> k, doc |-> d,
                  raced |-> \E y \in Handlers \ {h} :
                               handler[y].op # "idle" /\ Conflict(op, handler[y].op)]
            ELSE IF handler[x].op # "idle" /\ Conflict(op, handler[x].op)
                 THEN [handler[x] EXCEPT !.raced = TRUE]
                 ELSE handler[x]]
    /\ UNCHANGED <<pipeVars, auxVars, Response, heap, shared, hist, snapshot, cacheFault>>

\* The map as the handler's access leaves it when nothing interfered.
Effect(a) ==
    CASE a.op = "save"  -> MapStore(Response, a.key, a.doc)
      [] a.op = "clear" -> MapDelete(Response, a.key)
      [] OTHER          -> Response

\* A handler leaves the map.  An access that overlapped a conflicting one is a
\* data race: it may take effect, be lost, or end in the runtime's fatal
\* "concurrent map" error.
EndAccess(h) ==
    /\ ~cacheFault
    /\ handler[h].op # "idle"
    /\ handler' = [handler EXCEPT ![h] = Idle]
    /\ \/ /\ Response' = Effect(handler[h])
          /\ UNCHANGED cacheFault
       \/ /\ handler[h].raced
          /\ cacheFault' = TRUE
          /\ UNCHANGED Response
       \/ /\ handler[h].raced /\ handler[h].op # "get"
          /\ UNCHANGED <<Response, cacheFault>>
    /\ UNCHANGED <<pipeVars, auxVars, heap, shared, hist, snapshot>>

\* The outbound header set: every inbound header but Content-Type, each
\* set to the first of its values (headers.Set(k, v[0])).
ForwardedHeaders(h) ==
    [k \in DOMAIN h \ {"Content-Type"} |-> <<h[k][1]>>]

\* The PerformRequestOptions built from the request; the body is whatever
\* ReadAll returned, its error only logged.
RequestOptions(req) ==
    [ Method  |-> req.Method,
      Path    |-> req.Path,
      Params  |-> req.Params,
      Headers |-> ForwardedHeaders(req.Header),
      Body    |-> req.read.data ]

\* util.WriteBackError: the status code and a body holding the message.
WriteBackError(wr, msg, code) ==
    [wr EXCEPT !.header = [k \in DOMAIN wr.header \cup {"Content-Type"} |->
                              IF k = "Content-Type" THEN <<"application/json">>
                              ELSE wr.header[k]],
               !.sent   = [k \in DOMAIN wr.header \cup {"Content-Type"} |->
                              IF k = "Content-Type" THEN <<"application/json">>
                              ELSE wr.header[k]],
               !.status = code,
               !.body   = <<"{", "error", ":">> \o msg \o <<"}">>,
               !.log    = wr.log \o <<"status", "body">>]

\* The mutated error branch: the error is reported with the status 200.
ErrorReplyStatusOK(wr, o) == WriteBackError(wr, o.text, 200)

\* The reply of the error branch.
ErrorReply(wr, o) == WriteBackError(wr, o.text, StatusInternalServerError)

\* The response header after the copy loop and the marker: every backend
\* header but Content-Length set to the first of its values, then X-Origin.
CopyHeaders(wh, rh) ==
    [k \in DOMAIN wh \cup (DOMAIN rh \ {"Content-Length"}) \cup {"X-Origin"} |->
        IF k = "X-Origin" THEN <<"ES">>
        ELSE IF k \in DOMAIN rh \ {"Content-Length"} THEN <<rh[k][1]>>
        ELSE wh[k]]

FreshWriter == [header |-> <<>>, status |-> 0, sent |-> <<>>, body |-> <<>>,
                log |-> <<>>]

ReqInit ==
    /\ request \in Requests
    /\ hpc = "start"
    /\ calls = <<>>
    /\ outcome = [err |-> FALSE, text |-> <<>>, response |-> NoResponse]
    /\ w = FreshWriter

\* The handler up to its backend call: headers, body, PerformRequest.
HandlerForward ==
    /\ hpc = "start"
    /\ calls' = Append(calls, RequestOptions(request))
    /\ hpc' = "called"
    /\ UNCHANGED <<pipeVars, cacheVars, opVars, request, outcome, w>>

\* PerformRequest returns; on an error the handler writes it back and returns.
BackendReturns(o) ==
    /\ hpc = "called"
    /\ outcome' = o
    /\ \/ /\ o.err
          /\ w' = ErrorReply(w, o)
          /\ hpc' = "done"
       \/ /\ ~o.err
          /\ hpc' = "headers"
          /\ UNCHANGED w
    /\ UNCHANGED <<pipeVars, cacheVars, opVars, request, calls>>

\* The header copy loop and the X-Origin marker.
HandlerCopyHeaders ==
    /\ hpc = "headers"
    /\ w' = [w EXCEPT !.header = CopyHeaders(w.header, outcome.response.Header),
                      !.log = Append(w.log, "headers")]
    /\ hpc' = "status"
    /\ UNCHANGED <<pipeVars, cacheVars, opVars, request, calls, outcome>>

\* w.WriteHeader(response.StatusCode): the header map goes out with it.
HandlerWriteStatus ==
    /\ hpc = "status"
    /\ w' = [w EXCEPT !.status = outcome.response.StatusCode,
                      !.sent = w.header,
                      !.log = Append(w.log, "status")]
    /\ hpc' = "body"
    /\ UNCHANGED <<pipeVars, cacheVars, opVars, request, calls, outcome>>

\* io.Copy(w, bytes.NewReader(response.Body))
HandlerCopyBody ==
    /\ hpc = "body"
    /\ w' = [w EXCEPT !.body = w.body \o outcome.response.Body,
                      !.log = Append(w.log, "body")]
    /\ hpc' = "done"
    /\ UNCHANGED <<pipeVars, cacheVars, opVars, request, calls, outcome>>

OpInit ==
    /\ methods \in MethodLists
    /\ specOp = "pending"

\* One call of decodeOp.
DecodeOp ==
    /\ specOp = "pending"
    /\ specOp' = decodeOp([Methods |-> methods])
    /\ UNCHANGED <<pipeVars, cacheVars, reqVars, methods>>

\* ------------------------------------------------------------ specifications

vars == <<pipeVars, cacheVars, auxVars>>

\* The cache as it is while the pipeline runs: empty and untouched.
CacheAtRest ==
    /\ Response = <<>>
    /\ heap = [d \in DocRefs |-> "took5"]
    /\ shared = {}
    /\ hist = <<>>
    /\ snapshot = <<>>
    /\ handler = [h \in Handlers |-> Idle]
    /\ cacheFault = FALSE

\* The pipeline as it is once preprocess has returned for an empty spec root.
PipeAtRest ==
    /\ root = "dir"
    /\ corpus = NoFiles
    /\ fetchPc = "done"
    /\ walked = NumFiles
    /\ filesClosed = TRUE
    /\ dispPc = "done"
    /\ task = [f \in Files |-> "done"]
    /\ wg = 0
    /\ closerPc = "done"
    /\ apisCloses = 1
    /\ mainPc = "returned"
    /\ routes = <<indexRoute>>
    /\ routeSpecs = <<>>
    /\ acls = <<>>
    /\ proc = "running"

\* The handler before any request.
ReqAtRest ==
    /\ request = [Method |-> "GET", Path |-> <<"/", "_", "search">>, Params |-> <<>>,
                  Header |-> <<>>, read |-> [data |-> <<>>, err |-> FALSE]]
    /\ hpc = "start"
    /\ calls = <<>>
    /\ outcome = [err |-> FALSE, text |-> <<>>, response |-> NoResponse]
    /\ w = FreshWriter

\* No decodeOp call under way.
OpAtRest ==
    /\ methods = <<>>
    /\ specOp = "pending"

Init == PipeInit /\ CacheAtRest /\ ReqAtRest /\ OpAtRest

Next ==
    \/ FetchStat
    \/ WalkSend
    \/ WalkEnd
    \/ DispatchEnd
    \/ \E f \in Files : DecodeSpecFile(f)
    \/ \E f \in Files : Deliver(f)
    \/ \E f \in Files : TaskDone(f)
    \/ CloseApis
    \/ Publish

\* Initialization: the route-construction pipeline of preprocess.
Spec == Init /\ [][Next]_vars

CacheNext ==
    \/ \E k \in Keys, d \in DocRefs \cup {NilDoc} : SaveResponse(k, d)
    \/ \E k \in Keys : GetResponse(k)
    \/ \E k \in Keys : ClearResponse(k)
    \/ \E d \in DocRefs, c \in Contents : CallerMutates(d, c)

CacheSpecInit == PipeAtRest /\ CacheInit /\ ReqAtRest /\ OpAtRest

\* The response cache used by one caller at a time.
CacheSpec == CacheSpecInit /\ [][CacheNext]_vars

RaceNext ==
    \/ \E h \in Handlers, op \in {"save", "get", "clear"}, k \in Keys, d \in DocRefs :
          BeginAccess(h, op, k, IF op = "save" THEN d ELSE NilDoc)
    \/ \E h \in Handlers : EndAccess(h)

\* The response cache used by concurrent request handlers.
RaceSpec == CacheSpecInit /\ [][RaceNext]_vars

HandlerInit == PipeAtRest /\ CacheAtRest /\ ReqInit /\ OpAtRest

HandlerNext ==
    \/ HandlerForward
    \/ \E o \in BackendOutcomes : BackendReturns(o)
    \/ HandlerCopyHeaders
    \/ HandlerWriteStatus
    \/ HandlerCopyBody

\* The forwarding handler serving one request.
HandlerSpec == HandlerInit /\ [][HandlerNext]_vars

OpSpecInit == PipeAtRest /\ CacheAtRest /\ ReqAtRest /\ OpInit

OpNext == DecodeOp

\* decodeOp applied to a list of declared methods.
OpSpec == OpSpecInit /\ [][OpNext]_vars

\* ------------------------------------------------------------------ claims

Returned == mainPc = "returned"

IsCatchAll(r) == r.Path = <<"/">> /\ r.Methods = <<"GET">>

\* C1: when preprocess returns, the table holds exactly one entry with path
\* "/", its method is GET, and it is the last element.
C1_CatchAllLast ==
    Returned =>
        /\ Len(routes) >= 1
        /\ IsCatchAll(routes[Len(routes)])
        /\ \A i \in 1..Len(routes) : routes[i].Path = <<"/">> => i = Len(routes)

\* A run that returned after consuming the spec whose variants "/" and ""
\* both normalize to the bare "/", next to a spec that registers routes.
C1_Witness ==
    /\ Returned
    /\ Len(routes) >= 3
    /\ \E f \in Files : corpus[f].kind = "ok" /\ corpus[f].spec = InfoSpec

\* A precedes B rightly: no fewer fixed segments, and with as many fixed
\* segments no more parameter segments.
Ordered(a, b) ==
    LET n1 == CountComponents(a.Path)
        n2 == CountComponents(b.Path)
    IN  n1[1] >= n2[1] /\ (n1[1] = n2[1] => n1[2] <= n2[2])

\* C2 as stated: every pair of the whole published table, the catch-all
\* included, is ordered by specificity.
C2_WholeTableOrdered ==
    Returned =>
        \A i, j \in 1..Len(routes) : i < j => Ordered(routes[i], routes[j])

\* C2 amended: every pair of the published table that precedes the final
\* catch-all entry is ordered by specificity.
C2_SortedBeforeCatchAll ==
    Returned =>
        \A i, j \in 1..(Len(routes) - 1) : i < j => Ordered(routes[i], routes[j])

\* A published table of routes with different scores, built from two specs
\* whose routes interleave in the sorted order.
C2_Witness ==
    /\ Returned
    /\ Len(routes) >= 5
    /\ \E i, j \in 1..(Len(routes) - 1) :
          /\ i < j
          /\ CountComponents(routes[i].Path)[1] > CountComponents(routes[j].Path)[1]
    /\ \E f, g \in Files :
          /\ corpus[f].spec = IndicesGetSpec /\ corpus[f].kind = "ok"
          /\ corpus[g].spec = SearchSpec /\ corpus[g].kind = "ok"

RECURSIVE AssembleInFileOrder(_)
\* The routes the builder accumulates when the specs of files 1..n arrive in
\* the order of the walk.
AssembleInFileOrder(n) ==
    IF n = 0 THEN <<>>
    ELSE AssembleInFileOrder(n - 1) \o
            (IF corpus[n].kind = "ok"
             THEN RoutesOf(ApiOf(corpus[n].base, corpus[n].spec))
             ELSE <<>>)

\* C3: the published table depends on the corpus alone: whatever the order
\* of arrival, it is the table the walk's order of arrival yields.
C3_Deterministic ==
    Returned =>
        routes = Append(SortRoutes(AssembleInFileOrder(walked)), indexRoute)

\* C4: no two entries of the published table share a method and a path.
C4_NoDuplicateRoutes ==
    Returned =>
        \A i, j \in 1..Len(routes) :
            i < j /\ routes[i].Path = routes[j].Path =>
                ~ \E m \in 1..Len(routes[i].Methods), n \in 1..Len(routes[j].Methods) :
                      routes[i].Methods[m] = routes[j].Methods[n]

\* C5: a malformed file is skipped: once its decode task has met the
\* malformed content the task is over and the process is still running.
C5_MalformedSkipped ==
    \A f \in Files :
        corpus[f].kind = "malformed" /\ task[f] \notin {"idle", "read"} =>
            proc = "running" /\ task[f] = "done"

\* C6: close(apis) runs at most once, and only when decodeSpecFiles has left
\* its loop and every dispatched task has returned; while the process runs
\* the WaitGroup counts exactly the dispatched tasks that have not returned,
\* and no task is left to send on the closed channel.
C6_CloseAfterAllDone ==
    /\ apisCloses <= 1
    /\ proc = "running" =>
          wg = Cardinality({f \in Files : task[f] \in {"read", "send", "sent"}})
    /\ apisCloses > 0 =>
          /\ dispPc = "done"
          /\ wg = 0
          /\ \A f \in Files : task[f] \in {"idle", "done"}

\* The channel was closed after both sends of a two-spec corpus.
C6_Witness ==
    /\ apisCloses = 1
    /\ \A f \in Files : task[f] = "done" /\ corpus[f].kind = "ok"
    /\ Len(routes) >= 2

\* C7: with a spec root that is missing or not a directory preprocess never
\* returns a route table.
C7_BadRootNeverReturns == root # "dir" => ~Returned

RECURSIVE AbstractLookup(_, _)
\* What the operations h leave under key k: the document of the last
\* SaveResponse(k) no ClearResponse(k) follows.
AbstractLookup(h, k) ==
    IF h = <<>> THEN NotFound
    ELSE LET e == h[Len(h)]
         IN  IF e.key = k /\ e.op = "save" THEN [found |-> TRUE, doc |-> e.doc]
             ELSE IF e.key = k /\ e.op = "clear" THEN NotFound
             ELSE AbstractLookup(SubSeq(h, 1, Len(h) - 1), k)

\* C8: after any sequence of operations every key reads as the operations on
\* that key alone determine, every GetResponse returned what the operations
\* before it determine (the saved document, or not found), and no operation
\* failed.
C8_MapSemantics ==
    /\ \A k \in Keys : MapLoad(Response, k) = AbstractLookup(hist, k)
    /\ \A i \in 1..Len(hist) :
          hist[i].op = "get" =>
              hist[i].res = AbstractLookup(SubSeq(hist, 1, i - 1), hist[i].key)
    /\ ~cacheFault

\* Save, Clear, Get of one key: the Get finds nothing; a Get before the Clear
\* would have found the document.
C8_Witness ==
    \E i, j, m \in 1..Len(hist) :
        /\ i < j /\ j < m
        /\ hist[i].op = "save" /\ hist[i].doc # NilDoc
        /\ hist[j].op = "clear" /\ hist[j].key = hist[i].key
        /\ hist[m].op = "get" /\ hist[m].key = hist[i].key
        /\ ~hist[m].res.found

\* C9: no two handlers are inside the map at once unless both only read it,
\* and no access ends in the runtime's concurrent-map error.
C9_NoConcurrentAccess ==
    /\ ~cacheFault
    /\ \A h1, h2 \in Handlers :
          h1 # h2 /\ handler[h1].op # "idle" /\ handler[h2].op # "idle" =>
              ~Conflict(handler[h1].op, handler[h2].op)

\* C10: what the cache holds under a key has the content the document had
\* when it was saved, whatever the callers did to their documents since.
C10_CopyDiscipline ==
    \A k \in DOMAIN Response : ContentOf(Response[k]) = snapshot[k]

HandlerDone == hpc = "done"

\* C11: the header set handed to the backend is the inbound one, every name
\* with all of its values, without Content-Type.
C11_HeadersForwarded ==
    hpc # "start" =>
        /\ Len(calls) = 1
        /\ calls[1].Headers =
              [k \in DOMAIN request.Header \ {"Content-Type"} |-> request.Header[k]]

\* s holds t as a run of consecutive tokens.
Contains(s, t) ==
    \E i \in 1..(Len(s) - Len(t) + 1) : SubSeq(s, i, i + Len(t) - 1) = t

\* C12: after a backend error the handler has issued exactly one backend
\* call and answered 500 with a body holding the error text; nothing of a
\* backend response (header, origin marker, status, body) is relayed.
C12_ErrorReply ==
    HandlerDone /\ outcome.err =>
        /\ Len(calls) = 1
        /\ w.status = StatusInternalServerError
        /\ Contains(w.body, outcome.text)
        /\ DOMAIN w.sent \cap ResponseHeaderNames = {}
        /\ w.log = <<"status", "body">>

\* The backend call of a request with headers failed and was answered.
C12_Witness ==
    /\ HandlerDone /\ outcome.err
    /\ "Accept" \in DOMAIN request.Header
    /\ w.body # <<>>

\* C13: after a successful backend call the response carries every backend
\* header but Content-Length with its values, X-Origin: ES whatever the
\* backend sent under that name, the backend's status and the backend's
\* body; header, status and body are written in this order.
C13_ResponseRelayed ==
    HandlerDone /\ ~outcome.err =>
        /\ \A k \in DOMAIN outcome.response.Header \ {"Content-Length", "X-Origin"} :
              k \in DOMAIN w.sent /\ w.sent[k] = outcome.response.Header[k]
        /\ "Content-Length" \notin DOMAIN w.sent
        /\ "X-Origin" \in DOMAIN w.sent /\ w.sent["X-Origin"] = <<"ES">>
        /\ w.status = outcome.response.StatusCode
        /\ w.body = outcome.response.Body
        /\ w.log = <<"headers", "status", "body">>

\* What one method decides when the scan stops at it.
OperationOf(method) ==
    CASE method \in {"PUT", "PATCH"} -> "write"
      [] method = "DELETE"           -> "delete"
      [] OTHER                       -> "read"

NonPost(ms) == {i \in 1..Len(ms) : ms[i] # "POST"}

\* C14: the operation of a list that holds a method other than POST is the
\* one of the first such method, however many POST entries precede it.
C14_FirstNonPostDecides ==
    specOp # "pending" /\ NonPost(methods) # {} =>
        LET i == CHOOSE k \in NonPost(methods) : \A j \in NonPost(methods) : k <= j
        IN  specOp = OperationOf(methods[i])

\* decodeOp has answered for POST entries followed by a DELETE.
C14_Witness ==
    /\ specOp = "delete"
    /\ Len(methods) >= 2
    /\ methods[1] = "POST" /\ methods[Len(methods)] = "DELETE"

\* C17: when reading the body failed the backend call is still issued, and
\* with an empty body.
C17_EmptyBodyOnReadError ==
    hpc # "start" /\ request.read.err =>
        Len(calls) = 1 /\ calls[1].Body = <<>>

\* C18 as stated: a list without a stopping method (empty, or POST entries
\* only) gives read.
C18_ExhaustionIsRead ==
    specOp # "pending" /\ NonPost(methods) = {} => specOp = "read"

\* C18 amended: a list without a stopping method gives read when it is
\* empty and write when it holds POST entries.
C18_ExhaustionKeepsLast ==
    specOp # "pending" /\ NonPost(methods) = {} =>
        specOp = IF methods = <<>> THEN "read" ELSE "write"

\* decodeOp has answered for a list of POST entries only.
C18_Witness ==
    /\ specOp = "write"
    /\ Len(methods) >= 2
    /\ NonPost(methods) = {}

\* The file's task got past its read and decode.
Decoded(f) == corpus[f].kind = "ok" /\ task[f] \notin {"idle", "read"}

\* The name decodeACL looks up: the first path segment starting with "_",
\* without it, or else the file name up to its first ".".
LookedUpName(base, spec) ==
    LET segs == Split(spec.Path, "/")
        us   == {i \in 1..Len(segs) : Len(segs[i]) > 0 /\ segs[i][1] = "_"}
    IN  IF us # {}
        THEN Tail(segs[CHOOSE k \in us : \A j \in us : k <= j])
        ELSE Split(base, ".")[1]

\* C15: a decoded spec always leaves its task with an api value for the
\* builder, never ending the task or the process, and its tier is the
\* looked-up name when that is a known ACL and "get" otherwise.
C15_ACLNeverFails ==
    \A f \in Files :
        Decoded(f) =>
            /\ task[f] # "dead" /\ proc # "panic"
            /\ LET name == LookedUpName(corpus[f].base, corpus[f].spec)
               IN  ApiOf(corpus[f].base, corpus[f].spec).acl =
                      IF name \in KnownACLs THEN name ELSE <<"get">>

\* The paths a spec is to be registered under: its variants, or its canonical
\* path when it declares none; each with a leading "/", the bare "/" left out.
DeclaredPaths(spec) ==
    LET ps == IF spec.Paths = <<>> THEN <<spec.Path>> ELSE spec.Paths
    IN  { IF Len(ps[i]) > 0 /\ ps[i][1] = "/" THEN ps[i] ELSE <<"/">> \o ps[i] :
            i \in 1..Len(ps) } \ { <<"/">> }

\* C16: every spec the builder has consumed has a route for each of its
\* declared paths, carrying the spec's methods.
C16_EveryVariantRegistered ==
    \A f \in Files :
        corpus[f].kind = "ok" /\ task[f] \in {"sent", "done"} =>
            \A p \in DeclaredPaths(corpus[f].spec) :
                \E i \in 1..Len(routes) :
                    /\ routes[i].Path = p
                    /\ routes[i].Methods = corpus[f].spec.Methods
                    /\ routes[i].Name = TrimSuffix(corpus[f].base, ".json")

\* Every discovered file reads and decodes.
AllFilesDecode == root = "dir" /\ \A f \in Files : corpus[f].kind = "ok"

\* C19: with files that all read and decode the pipeline never stops short
\* of preprocess returning: in every state it has returned or a step of it
\* can be taken.
C19_NeverStuck == AllFilesDecode => Returned \/ ENABLED Next

\* C20: in the published table every method of every entry built from a spec
\* has a routeSpecs entry under "METHOD:path", and that entry is the api of
\* the spec the table entry was built from.
C20_LookupAgrees ==
    Returned =>
        \A i \in 1..(Len(routes) - 1) :
            \A m \in 1..Len(routes[i].Methods) :
                LET key == RouteKey(routes[i].Methods[m], routes[i].Path)
                IN  /\ key \in DOMAIN routeSpecs
                    /\ routeSpecs[key].name = routes[i].Name
                    /\ routeSpecs[key].spec.Methods = routes[i].Methods

====
